---- MODULE Spec2Model ----
(***************************************************************************)
(* Carousel (ContentBlock), lightbox (ImageLightbox) and content block     *)
(* editor (ContentBlockEditor) of the portfolio site, as state machines.   *)
(*                                                                         *)
(* React is modelled at the granularity of one discrete event: an action   *)
(* is the event handler, the re-render it causes and the effects flushed   *)
(* after that render.                                                      *)
(***************************************************************************)
EXTENDS Integers, Sequences, FiniteSets, TLC

\* Longest image sequence of a block.
MaxImages == 5

\* Image references (opaque strings; data URIs in the program).
ImageRefs == {"A", "B"}

\* The value of a piece of component state that does not exist (unmounted).
NoIndex == -1

RECURSIVE SeqsUpTo(_, _)
SeqsUpTo(S, n) ==
    IF n = 0 THEN {<<>>}
    ELSE LET shorter == SeqsUpTo(S, n - 1)
         IN  shorter \cup {Append(s, x) : s \in {t \in shorter : Len(t) = n - 1}, x \in S}

\* The image sequences of a block: to the carousel and the lightbox an image is
\* only a position, so the sequences differ in their length and in their
\* first image.
ImageSeqs ==
    {<<>>} \cup {[k \in 1..n |-> IF k = 1 THEN first ELSE "A"] :
                    n \in 1..MaxImages, first \in ImageRefs}

\* Longest image sequence held by the editor.
MaxEditorImages == 2

VARIABLES
    blockImage,     \* ContentBlock: block.image, the prop the carousel renders
    activeIndex,    \* ContentBlock: useState(0)
    lightboxOpen,   \* ContentBlock: useState(false)
    currentIndex,   \* ImageLightbox: useState(initialIndex); NoIndex while unmounted
    bodyOverflow,   \* document.body.style.overflow
    listeners,      \* document: how many keydown listeners of each lightbox effect are registered
    bubbled,        \* whether the click handled last reached the elements that enclose the block
    lastEvent,      \* the event handled last (history)
    run,            \* the run of identical consecutive navigation events (history)
    isOpen,         \* ContentBlockEditor: the isOpen prop
    initialData,    \* ContentBlockEditor: the initialData prop, <<>> when absent
    type,           \* ContentBlockEditor: useState('title')
    content,        \* ContentBlockEditor: useState('')
    hasDuration,    \* ContentBlockEditor: useState(false)
    duration,       \* ContentBlockEditor: useState('')
    hasImages,      \* ContentBlockEditor: useState(false)
    images,         \* ContentBlockEditor: useState([])
    imageLinks,     \* ContentBlockEditor: useState([])
    isUploading,    \* ContentBlockEditor: useState(false)
    previewIndex,   \* ContentBlockEditor: useState(0)
    authToken,      \* whether the auth_token cookie is present
    upload,         \* the handleFileUpload calls that are suspended at an await
    saved,          \* the onSave calls made since the editor was opened
    upPc,           \* upload route: where the POST handler stands
    upRequest,      \* upload route: the request being handled, <<>> when idle
    upFailed,       \* upload route: whether an await of the handler threw (history)
    upResponse,     \* upload route: the response returned, <<>> before it
    tableExists,    \* database: whether the table portfolio exists
    table,          \* database: the rows of portfolio, the row of id k at position k
    handler,        \* profile route: the state of each GET or POST invocation in flight
    lastSaved       \* the document of the last POST that returned success (history)

viewVars ==
    <<blockImage, activeIndex, lightboxOpen, currentIndex, bodyOverflow, listeners, bubbled,
      run>>

formVars == <<type, content, hasDuration, duration, hasImages, images, imageLinks,
              previewIndex>>

editorVars == <<isOpen, initialData, formVars, isUploading, authToken, upload, saved>>

uploadVars == <<upPc, upRequest, upFailed, upResponse>>

profileVars == <<tableExists, table, handler, lastSaved>>

apiVars == <<uploadVars, profileVars>>

vars == <<viewVars, lastEvent, editorVars, apiVars>>

----------------------------------------------------------------------------
(* ContentBlock.tsx                                                        *)

\* const images = block.image || []
total == Len(blockImage)

\* renderCarousel returns null for an empty sequence, so the lightbox element
\* exists only when lightboxOpen holds and there is an image.
LightboxMountedFor(imgs, open) == open /\ Len(imgs) > 0

LightboxMounted == LightboxMountedFor(blockImage, lightboxOpen)

\* The arrows, the counter and the dots are rendered only for several images.
NavRendered == total > 1

\* A slip: the wrap-around of previous() is missing.
CarouselPrevIndex_NoWrap(prev, len) == prev - 1

\* setActiveIndex((prev) => (prev > 0 ? prev - 1 : images.length - 1))
CarouselPrevIndex(prev, len) == IF prev > 0 THEN prev - 1 ELSE len - 1

\* A slip: next() stops at the last image.
CarouselNextIndex_Clamp(prev, len) == IF prev < len - 1 THEN prev + 1 ELSE prev

\* setActiveIndex((prev) => (prev < images.length - 1 ? prev + 1 : 0))
CarouselNextIndex(prev, len) == IF prev < len - 1 THEN prev + 1 ELSE 0

----------------------------------------------------------------------------
(* ImageLightbox.tsx                                                       *)

\* useState(initialIndex), and the effect on [initialIndex] that runs on mount.
MountIndex(initialIndex) == initialIndex

\* A slip: no effect follows the initialIndex prop.
SyncIndex_Never(cur, oldInitial, newInitial) == cur

\* The effect on [initialIndex] of a lightbox that stays mounted: it runs when
\* the prop has changed and sets currentIndex to it.
SyncIndex(cur, oldInitial, newInitial) ==
    IF newInitial # oldInitial THEN newInitial ELSE cur

\* A slip: the lightbox element is rendered unconditionally and only hidden
\* through isOpen, so its state outlives a close.
RenderLightbox_KeepMounted(cur, imgs, act, open) ==
    IF cur = NoIndex THEN MountIndex(act)
    ELSE SyncIndex(cur, activeIndex, act)

\* The lightbox's currentIndex after a render of the carousel with the image
\* sequence imgs, the index act and the flag open; cur is the lightbox's
\* index after the event handled. {lightboxOpen && <ImageLightbox .../>}
\* unmounts the lightbox, and with it its state, when the flag is off.
RenderLightbox(cur, imgs, act, open) ==
    IF ~LightboxMountedFor(imgs, open) THEN NoIndex
    ELSE IF ~LightboxMounted THEN MountIndex(act)
    ELSE SyncIndex(cur, activeIndex, act)

\* document.body.style.overflow of the page before any lightbox has touched it;
\* the lightbox assigns 'hidden' and 'unset'.
PageOverflow == ""

\* Page scroll is suspended while the body's overflow is 'hidden'.
ScrollSuspended == bodyOverflow = "hidden"

\* A slip: the effect returns no cleanup for the overflow.
RenderOverflow_NoCleanup(imgs, open) ==
    IF LightboxMountedFor(imgs, open) THEN "hidden" ELSE bodyOverflow

\* document.body.style.overflow after a render of the carousel with the image
\* sequence imgs and the flag open. The effect on [isOpen, onClose] of a
\* mounted lightbox assigns 'hidden' (after its cleanup, when the carousel has
\* rendered again and passed a new onClose); the cleanup of a lightbox that
\* unmounts assigns 'unset'.
RenderOverflow(imgs, open) ==
    IF LightboxMountedFor(imgs, open) THEN "hidden"
    ELSE IF LightboxMounted THEN "unset"
    ELSE bodyOverflow

\* No keydown listener of the lightbox is registered on the document.
NoListeners == [escape |-> 0, keyNav |-> 0]

\* More listeners of one effect than this are counted as this many.
MaxListeners == 2

\* document.addEventListener('keydown', handler) with a handler created by the
\* effect run: one more listener.
AddListener(n) == IF n < MaxListeners THEN n + 1 ELSE n

\* A slip: the effect returns no cleanup.
AfterCleanup_Missing(n) == n

\* The cleanup of an effect run: document.removeEventListener('keydown',
\* handler) with the handler of that run, which removes it if the run had
\* added it.
AfterCleanup(n) == IF n > 0 THEN n - 1 ELSE 0

\* The listeners on the document after a render of the carousel with the image
\* sequence imgs and the flag open; cur is the lightbox's index after the
\* render. A lightbox that mounts runs both effects; one that stays mounted
\* cleans up and runs again the effect on [isOpen, onClose] (ContentBlock
\* passes a new onClose with every render) and, when currentIndex or
\* images.length has changed, the effect on [isOpen, currentIndex,
\* images.length]; one that unmounts runs both cleanups. The arrow-key
\* listener is added only when isOpen && images.length > 1.
RenderListeners(cur, imgs, open) ==
    IF LightboxMountedFor(imgs, open)
    THEN IF ~LightboxMounted
         THEN [escape |-> AddListener(listeners.escape),
               keyNav |-> IF Len(imgs) > 1 THEN AddListener(listeners.keyNav)
                          ELSE listeners.keyNav]
         ELSE [escape |-> AddListener(AfterCleanup(listeners.escape)),
               keyNav |-> IF cur = currentIndex /\ Len(imgs) = total THEN listeners.keyNav
                          ELSE IF Len(imgs) > 1 THEN AddListener(AfterCleanup(listeners.keyNav))
                          ELSE AfterCleanup(listeners.keyNav)]
    ELSE IF LightboxMounted
    THEN [escape |-> AfterCleanup(listeners.escape),
          keyNav |-> AfterCleanup(listeners.keyNav)]
    ELSE listeners

\* setCurrentIndex((prev) => (prev > 0 ? prev - 1 : images.length - 1))
LightboxPrevIndex(prev, len) == IF prev > 0 THEN prev - 1 ELSE len - 1

\* A slip: next stops at the last image.
LightboxNextIndex_Clamp(prev, len) == IF prev < len - 1 THEN prev + 1 ELSE prev

\* setCurrentIndex((prev) => (prev < images.length - 1 ? prev + 1 : 0))
LightboxNextIndex(prev, len) == IF prev < len - 1 THEN prev + 1 ELSE 0

\* The Escape listener is added when isOpen holds; ContentBlock passes
\* isOpen = lightboxOpen, which holds whenever the lightbox is mounted.
EscapeListening == LightboxMounted

\* A slip: the listener does not look at the key.
EscapeCloses_AnyKey(key) == TRUE

\* handleEscape: if (e.key === 'Escape') onClose()
EscapeCloses(key) == key = "Escape"

\* The arrow-key listener is added when isOpen && images.length > 1.
KeyNavListening == LightboxMounted /\ total > 1

\* Handlers that call e.stopPropagation(): the previous and next buttons, the
\* image and the thumbnails. The close button, the counter, the link, the
\* image container and the help text do not.
StopsPropagation(target) ==
    target \in {"prevButton", "nextButton", "image", "thumbnail"}

\* handleBackdropClick: if (e.target === e.currentTarget) onClose()
handleBackdropClick(target) == target = "backdrop"

\* Whether a click on target calls onClose: the close button's own handler, or
\* the backdrop's handler once the click has reached the backdrop.
ClickCloses(target) ==
    \/ target = "closeButton"
    \/ /\ (target = "backdrop" \/ ~StopsPropagation(target))
       /\ handleBackdropClick(target)

\* What can be clicked in the open lightbox: the navigation buttons and the
\* thumbnails exist only for several images.
LightboxTargets ==
    {"backdrop", "closeButton", "image", "container"}
        \cup (IF total > 1 THEN {"prevButton", "nextButton", "thumbnail"} ELSE {})

----------------------------------------------------------------------------
(* History of the run of identical consecutive navigation events: its kind, *)
(* the index before its first event and the number of events so far.        *)

RunCap == MaxImages + 1

NoRun == [kind |-> "none", start |-> 0, n |-> 0]

RunAfter(kind, before) ==
    IF run.kind = kind /\ run.n < RunCap
    THEN [run EXCEPT !.n = @ + 1]
    ELSE [kind |-> kind, start |-> before, n |-> 1]

----------------------------------------------------------------------------
(* The carousel's events                                                   *)

\* The controls of the carousel that take clicks.
CarouselControls == {"image", "previous", "next", "dot"}

\* handlePrevious, handleNext and handleImageClick call e.stopPropagation();
\* the handler of a dot, () => setActiveIndex(index), does not.
CarouselStopsPropagation(control) == control \in {"image", "previous", "next"}

\* Whether a click on a control goes on, after the control's handler, to the
\* handlers of the elements that enclose the block. The buttons lie inside
\* the image's element, the dots beside it; none of the elements between a
\* control and the block's root stops the click.
ClickBubbles(control) == ~CarouselStopsPropagation(control)

\* A press of the previous control: handlePrevious when the control is
\* rendered; nothing to press otherwise.
CarouselPrevious ==
    LET act == IF NavRendered THEN CarouselPrevIndex(activeIndex, total) ELSE activeIndex
    IN  /\ activeIndex' = act
        /\ currentIndex' = RenderLightbox(currentIndex, blockImage, act, lightboxOpen)
        /\ bodyOverflow' = RenderOverflow(blockImage, lightboxOpen)
        /\ listeners' = RenderListeners(currentIndex, blockImage, lightboxOpen)
        /\ bubbled' = (NavRendered /\ ClickBubbles("previous"))
        /\ lastEvent' = "previous"
        /\ run' = NoRun
        /\ UNCHANGED <<blockImage, lightboxOpen, editorVars, apiVars>>

\* A press of the next control: handleNext when the control is rendered.
CarouselNext ==
    LET act == IF NavRendered THEN CarouselNextIndex(activeIndex, total) ELSE activeIndex
    IN  /\ activeIndex' = act
        /\ currentIndex' = RenderLightbox(currentIndex, blockImage, act, lightboxOpen)
        /\ bodyOverflow' = RenderOverflow(blockImage, lightboxOpen)
        /\ listeners' = RenderListeners(currentIndex, blockImage, lightboxOpen)
        /\ bubbled' = (NavRendered /\ ClickBubbles("next"))
        /\ lastEvent' = "next"
        /\ run' = RunAfter("next", activeIndex)
        /\ UNCHANGED <<blockImage, lightboxOpen, editorVars, apiVars>>

\* A dot indicator: onClick={() => setActiveIndex(index)}, one dot per image.
GoTo(i) ==
    /\ NavRendered
    /\ i \in 0..(total - 1)
    /\ activeIndex' = i
    /\ currentIndex' = RenderLightbox(currentIndex, blockImage, i, lightboxOpen)
    /\ bodyOverflow' = RenderOverflow(blockImage, lightboxOpen)
    /\ listeners' = RenderListeners(currentIndex, blockImage, lightboxOpen)
    /\ bubbled' = ClickBubbles("dot")
    /\ lastEvent' = "goTo"
    /\ run' = NoRun
    /\ UNCHANGED <<blockImage, lightboxOpen, editorVars, apiVars>>

\* handleImageClick: setLightboxOpen(true). The image is rendered for a
\* non-empty sequence and lies under the overlay while the lightbox is shown.
handleImageClick ==
    /\ total > 0
    /\ ~LightboxMounted
    /\ lightboxOpen' = TRUE
    /\ currentIndex' = RenderLightbox(currentIndex, blockImage, activeIndex, TRUE)
    /\ bodyOverflow' = RenderOverflow(blockImage, TRUE)
    /\ listeners' = RenderListeners(currentIndex, blockImage, TRUE)
    /\ bubbled' = ClickBubbles("image")
    /\ lastEvent' = "imageClick"
    /\ run' = NoRun
    /\ UNCHANGED <<blockImage, activeIndex, editorVars, apiVars>>

\* The parent re-renders ContentBlock with another image sequence in block.image.
\* useState keeps activeIndex and lightboxOpen across the re-render.
ReplaceImages(imgs) ==
    /\ imgs # blockImage
    /\ blockImage' = imgs
    /\ currentIndex' = RenderLightbox(currentIndex, imgs, activeIndex, lightboxOpen)
    /\ bodyOverflow' = RenderOverflow(imgs, lightboxOpen)
    /\ listeners' = RenderListeners(currentIndex, imgs, lightboxOpen)
    /\ bubbled' = FALSE
    /\ lastEvent' = "replace"
    /\ run' = NoRun
    /\ UNCHANGED <<activeIndex, lightboxOpen, editorVars, apiVars>>

\* The parent removes the block's element and renders a block in its place
\* (another key): the ContentBlock unmounts with its lightbox, whose effects
\* are cleaned up, and a new ContentBlock mounts with its initial state.
RemountBlock(imgs) ==
    /\ blockImage' = imgs
    /\ activeIndex' = 0
    /\ lightboxOpen' = FALSE
    /\ currentIndex' = RenderLightbox(currentIndex, imgs, 0, FALSE)
    /\ bodyOverflow' = RenderOverflow(imgs, FALSE)
    /\ listeners' = RenderListeners(currentIndex, imgs, FALSE)
    /\ bubbled' = FALSE
    /\ lastEvent' = "remount"
    /\ run' = NoRun
    /\ UNCHANGED <<editorVars, apiVars>>

----------------------------------------------------------------------------
(* The lightbox's events                                                   *)

\* A keydown on the document. Each listener acts only while it is registered.
KeyDown(key) ==
    LET closes == EscapeListening /\ EscapeCloses(key)
        cur    == IF ~KeyNavListening THEN currentIndex
                  ELSE IF key = "ArrowLeft" THEN LightboxPrevIndex(currentIndex, total)
                  ELSE IF key = "ArrowRight" THEN LightboxNextIndex(currentIndex, total)
                  ELSE currentIndex
        open   == IF closes THEN FALSE ELSE lightboxOpen
    IN  /\ lightboxOpen' = open
        /\ currentIndex' = RenderLightbox(cur, blockImage, activeIndex, open)
        /\ bodyOverflow' = RenderOverflow(blockImage, open)
        /\ listeners' = RenderListeners(cur, blockImage, open)
        /\ bubbled' = FALSE
        /\ lastEvent' = key
        /\ run' = IF key = "Escape" THEN NoRun ELSE RunAfter(key, currentIndex)
        /\ UNCHANGED <<blockImage, activeIndex, editorVars, apiVars>>

\* A click on an element of the open lightbox; i is the thumbnail clicked.
LightboxClick(target, i) ==
    /\ LightboxMounted
    /\ target \in LightboxTargets
    /\ i \in 0..(total - 1)
    /\ target # "thumbnail" => i = 0
    /\ LET closes == ClickCloses(target)
           cur    == CASE target = "prevButton" -> LightboxPrevIndex(currentIndex, total)
                       [] target = "nextButton" -> LightboxNextIndex(currentIndex, total)
                       [] target = "thumbnail"  -> i
                       [] OTHER                 -> currentIndex
           open   == IF closes THEN FALSE ELSE lightboxOpen
       IN  /\ lightboxOpen' = open
           /\ currentIndex' = RenderLightbox(cur, blockImage, activeIndex, open)
           /\ bodyOverflow' = RenderOverflow(blockImage, open)
           /\ listeners' = RenderListeners(cur, blockImage, open)
           /\ bubbled' = ~StopsPropagation(target)
    /\ lastEvent' = target
    /\ run' = NoRun
    /\ UNCHANGED <<blockImage, activeIndex, editorVars, apiVars>>

----------------------------------------------------------------------------

Keys == {"Escape", "ArrowLeft", "ArrowRight"}

ClickTargets ==
    {"backdrop", "closeButton", "image", "container", "prevButton", "nextButton", "thumbnail"}

\* The carousel as first rendered, for any block.
ViewInit ==
    /\ blockImage \in ImageSeqs
    /\ activeIndex = 0
    /\ lightboxOpen = FALSE
    /\ currentIndex = NoIndex
    /\ bodyOverflow = PageOverflow
    /\ listeners = NoListeners
    /\ bubbled = FALSE
    /\ run = NoRun

\* The editor as constructed, closed, creating a new block.
EditorIdle ==
    /\ isOpen = FALSE
    /\ initialData = <<>>
    /\ type = "title"
    /\ content = ""
    /\ hasDuration = FALSE
    /\ duration = ""
    /\ hasImages = FALSE
    /\ images = <<>>
    /\ imageLinks = <<>>
    /\ isUploading = FALSE
    /\ previewIndex = 0
    /\ upload = <<>>
    /\ saved = <<>>

\* A slot of the profile route with no invocation in it. found is the result
\* of the handler's SELECT, failed whether one of its awaits threw; expect and
\* overlap are history: the document last saved when a GET started, and
\* whether a POST was in flight at some moment of the GET.
IdleHandler ==
    [pc |-> "idle", kind |-> "none", auth |-> <<>>, doc |-> <<>>, found |-> <<>>,
     failed |-> FALSE, resp |-> <<>>, expect |-> <<>>, overlap |-> FALSE]

\* A new database, and no invocation of the profile route in the slots H.
ProfileIdle(H) ==
    /\ tableExists = FALSE
    /\ table = <<>>
    /\ handler = [p \in H |-> IdleHandler]
    /\ lastSaved = <<>>

\* No request is being handled by the upload route.
UploadIdle ==
    /\ upPc = "idle"
    /\ upRequest = <<>>
    /\ upFailed = FALSE
    /\ upResponse = <<>>

InitView ==
    /\ ViewInit
    /\ EditorIdle
    /\ UploadIdle
    /\ ProfileIdle({1})
    /\ authToken = TRUE
    /\ lastEvent = "init"

NextView ==
    \/ CarouselPrevious
    \/ CarouselNext
    \/ \E i \in 0..(MaxImages - 1) : GoTo(i)
    \/ handleImageClick
    \/ \E imgs \in ImageSeqs : ReplaceImages(imgs)
    \/ \E imgs \in ImageSeqs : RemountBlock(imgs)
    \/ \E key \in Keys : KeyDown(key)
    \/ \E target \in ClickTargets, i \in 0..(MaxImages - 1) : LightboxClick(target, i)

SpecView == InitView /\ [][NextView]_vars

----------------------------------------------------------------------------
(* ContentBlockEditor.tsx: values                                          *)

\* Texts typed into the content and duration fields: empty, blank, non-blank.
Texts == {"", " ", "a"}

\* String.prototype.trim on these texts.
Trim(s) == IF s = " " THEN "" ELSE s

\* Link texts typed into the link field.
Links == {"", "x"}

\* An array hole (an index never assigned) and the value undefined.
Hole == "<hole>"
Undefined == "<undefined>"

\* An optional argument: <<>> is undefined, <<v>> is the value v.
Some(v) == <<v>>
None == <<>>

\* ContentBlockType
BlockTypes == {"title", "context"}

\* useState initial values, also what handleClose and the effect reset to.
Defaults ==
    [type |-> "title", content |-> "", hasDuration |-> FALSE, duration |-> "",
     hasImages |-> FALSE, images |-> <<>>, imageLinks |-> <<>>, previewIndex |-> 0]

\* Existing blocks the editor is opened on. An absent duration is "", absent
\* images or imageLinks are <<>>: the code reads them through || '' and || [].
InitialBlocks ==
    {[type |-> "context", content |-> "a", duration |-> "", images |-> <<>>,
      imageLinks |-> <<>>],
     [type |-> "title", content |-> "", duration |-> "a", images |-> <<"A", "B">>,
      imageLinks |-> <<>>],
     [type |-> "title", content |-> "a", duration |-> "", images |-> <<"A">>,
      imageLinks |-> <<"x">>]}

\* The values of the initialData prop.
InitialDatas == {None} \cup {Some(b) : b \in {c \in InitialBlocks : Len(c.images) <= MaxEditorImages}}

\* The current form state as one record.
Form ==
    [type |-> type, content |-> content, hasDuration |-> hasDuration,
     duration |-> duration, hasImages |-> hasImages, images |-> images,
     imageLinks |-> imageLinks, previewIndex |-> previewIndex]

SetForm(f) ==
    /\ type' = f.type
    /\ content' = f.content
    /\ hasDuration' = f.hasDuration
    /\ duration' = f.duration
    /\ hasImages' = f.hasImages
    /\ images' = f.images
    /\ imageLinks' = f.imageLinks
    /\ previewIndex' = f.previewIndex

\* The effect on [initialData, isOpen]: load the block, or the defaults.
LoadForm(data) ==
    IF data # None
    THEN [type |-> data[1].type, content |-> data[1].content,
          hasDuration |-> data[1].duration # "", duration |-> data[1].duration,
          hasImages |-> Len(data[1].images) > 0, images |-> data[1].images,
          imageLinks |-> data[1].imageLinks, previewIndex |-> 0]
    ELSE Defaults

\* handleClose before it calls onClose: if (!initialData) reset everything.
CloseForm(f, data) == IF data = None THEN Defaults ELSE f

\* A slip: the effect runs on mount only.
RunEffect_Never(f, data, depsChanged) == f

\* The form after a render: the effect on [initialData, isOpen] runs when one of
\* the two has changed and loads the form again.
RunEffect(f, data, depsChanged) == IF depsChanged THEN LoadForm(data) ELSE f

\* The k-th smallest member of a set of numbers.
KthOf(K, k) == CHOOSE m \in K : Cardinality({x \in K : x < m}) = k - 1

\* prev.filter((_, i) => i !== index): filter never visits a hole, so the
\* result keeps the assigned entries other than index, packed.
FilterOutIndex(arr, index) ==
    LET K == {k \in 1..Len(arr) : k # index + 1 /\ arr[k] # Hole}
    IN  [j \in 1..Cardinality(K) |-> arr[KthOf(K, j)]]

\* [...prev]: the spread reads a hole as undefined.
Spread(arr) == [k \in 1..Len(arr) |-> IF arr[k] = Hole THEN Undefined ELSE arr[k]]

\* newLinks[index] = link: an index past the end leaves holes before it.
AssignAt(arr, index, v) ==
    [k \in 1..(IF index + 1 > Len(arr) THEN index + 1 ELSE Len(arr)) |->
        IF k = index + 1 THEN v ELSE IF k <= Len(arr) THEN arr[k] ELSE Hole]

\* handleUpdateLink
UpdateLink(arr, index, link) == AssignAt(Spread(arr), index, link)

\* new Array(n).fill('')
EmptyLinks(n) == [k \in 1..n |-> ""]

\* A slip: the text is tested without trim().
NothingToSave_NoTrim == content = "" /\ Len(images) = 0

\* handleSave's test: !content.trim() && images.length === 0
NothingToSave == Trim(content) = "" /\ Len(images) = 0

\* A slip: the images are passed whatever the toggle says.
OnSaveCall_IgnoreToggle ==
    [fn |-> "onSave", type |-> type, content |-> content,
     duration |-> IF hasDuration /\ Trim(duration) # "" THEN Some(duration) ELSE None,
     images |-> IF Len(images) > 0 THEN Some(images) ELSE None,
     imageLinks |-> IF Len(imageLinks) > 0 THEN Some(imageLinks) ELSE None]

\* The arguments handleSave passes to onSave.
OnSaveCall ==
    [fn |-> "onSave", type |-> type, content |-> content,
     duration |-> IF hasDuration /\ Trim(duration) # "" THEN Some(duration) ELSE None,
     images |-> IF hasImages /\ Len(images) > 0 THEN Some(images) ELSE None,
     imageLinks |-> IF hasImages /\ Len(imageLinks) > 0 THEN Some(imageLinks) ELSE None]

\* onDelete takes no argument.
OnDeleteCall ==
    [fn |-> "onDelete", type |-> "title", content |-> "", duration |-> None,
     images |-> None, imageLinks |-> None]

\* handleFileUpload's validation.
validTypes == {"image/jpeg", "image/jpg", "image/png", "image/gif", "image/webp"}
maxSize == 5 * 1024 * 1024

\* Files a user can select: two images the upload accepts, a file of another
\* type and an image above the size limit. url is the reference the server
\* returns for the file.
Files ==
    {[type |-> "image/png", size |-> maxSize, url |-> "A"],
     [type |-> "image/jpeg", size |-> 1, url |-> "B"],
     [type |-> "application/pdf", size |-> 1, url |-> "A"],
     [type |-> "image/png", size |-> maxSize + 1, url |-> "B"]}

\* A slip: the size is not tested.
FileValid_NoSizeCheck(file) == file.type \in validTypes

FileValid(file) == file.type \in validTypes /\ file.size <= maxSize

Batches == SeqsUpTo(Files, MaxEditorImages) \ {<<>>}

BatchValid(files) == \A k \in 1..Len(files) : FileValid(files[k])

\* The larger of two numbers.
Max(a, b) == IF a > b THEN a ELSE b

\* Images of the block in initialData.
InitialImages(data) == IF data = None THEN <<>> ELSE data[1].images

----------------------------------------------------------------------------
(* ContentBlockEditor.tsx: events                                          *)

\* The parent opens the editor, on a new block or on an existing one. The
\* effect on [initialData, isOpen] runs and loads the form.
OpenEditor(data) ==
    /\ ~isOpen
    /\ upload # <<>> => Len(InitialImages(data)) + Len(upload[1].files) <= MaxEditorImages
    /\ isOpen' = TRUE
    /\ initialData' = data
    /\ SetForm(RunEffect(Form, data, TRUE))
    /\ saved' = <<>>
    /\ lastEvent' = "open"
    /\ UNCHANGED <<viewVars, apiVars, isUploading, authToken, upload>>

\* The type buttons: setType
SetType(t) ==
    /\ isOpen
    /\ type' = t
    /\ lastEvent' = "edit"
    /\ UNCHANGED <<viewVars, apiVars, isOpen, initialData, content, hasDuration, duration,
                   hasImages, images, imageLinks, previewIndex, isUploading,
                   authToken, upload, saved>>

\* The textarea: setContent(e.target.value)
SetContent(text) ==
    /\ isOpen
    /\ content' = text
    /\ lastEvent' = "edit"
    /\ UNCHANGED <<viewVars, apiVars, isOpen, initialData, type, hasDuration, duration,
                   hasImages, images, imageLinks, previewIndex, isUploading,
                   authToken, upload, saved>>

\* The duration checkbox: setHasDuration(e.target.checked)
SetHasDuration(b) ==
    /\ isOpen
    /\ hasDuration' = b
    /\ lastEvent' = "edit"
    /\ UNCHANGED <<viewVars, apiVars, isOpen, initialData, type, content, duration,
                   hasImages, images, imageLinks, previewIndex, isUploading,
                   authToken, upload, saved>>

\* The duration input, rendered when hasDuration: setDuration(e.target.value)
SetDuration(text) ==
    /\ isOpen
    /\ hasDuration
    /\ duration' = text
    /\ lastEvent' = "edit"
    /\ UNCHANGED <<viewVars, apiVars, isOpen, initialData, type, content, hasDuration,
                   hasImages, images, imageLinks, previewIndex, isUploading,
                   authToken, upload, saved>>

\* The photo checkbox: setHasImages(e.target.checked)
SetHasImages(b) ==
    /\ isOpen
    /\ hasImages' = b
    /\ lastEvent' = "edit"
    /\ UNCHANGED <<viewVars, apiVars, isOpen, initialData, type, content, hasDuration,
                   duration, images, imageLinks, previewIndex, isUploading,
                   authToken, upload, saved>>

\* The gallery is rendered when hasImages && images.length > 0.
GalleryRendered == isOpen /\ hasImages /\ Len(images) > 0

\* The preview's previous button: p > 0 ? p - 1 : images.length - 1
PreviewPrevious ==
    /\ GalleryRendered
    /\ Len(images) > 1
    /\ previewIndex' = IF previewIndex > 0 THEN previewIndex - 1 ELSE Len(images) - 1
    /\ lastEvent' = "edit"
    /\ UNCHANGED <<viewVars, apiVars, isOpen, initialData, type, content, hasDuration,
                   duration, hasImages, images, imageLinks, isUploading,
                   authToken, upload, saved>>

\* The preview's next button: p < images.length - 1 ? p + 1 : 0
PreviewNext ==
    /\ GalleryRendered
    /\ Len(images) > 1
    /\ previewIndex' = IF previewIndex < Len(images) - 1 THEN previewIndex + 1 ELSE 0
    /\ lastEvent' = "edit"
    /\ UNCHANGED <<viewVars, apiVars, isOpen, initialData, type, content, hasDuration,
                   duration, hasImages, images, imageLinks, isUploading,
                   authToken, upload, saved>>

\* A thumbnail: setPreviewIndex(idx)
SelectThumbnail(idx) ==
    /\ GalleryRendered
    /\ idx \in 0..(Len(images) - 1)
    /\ previewIndex' = idx
    /\ lastEvent' = "edit"
    /\ UNCHANGED <<viewVars, apiVars, isOpen, initialData, type, content, hasDuration,
                   duration, hasImages, images, imageLinks, isUploading,
                   authToken, upload, saved>>

\* A slip: the preview index is left alone by a removal.
RemovePreviewIndex_NoClamp(prev, len) == prev

\* previewIndex after a removal from len images:
\* if (previewIndex >= images.length - 1) setPreviewIndex(Math.max(0, images.length - 2))
RemovePreviewIndex(prev, len) ==
    IF prev >= len - 1 THEN Max(0, len - 2) ELSE prev

\* A thumbnail's remove button: handleRemoveImage(idx)
handleRemoveImage(idx) ==
    /\ GalleryRendered
    /\ idx \in 0..(Len(images) - 1)
    /\ images' = FilterOutIndex(images, idx)
    /\ imageLinks' = FilterOutIndex(imageLinks, idx)
    /\ previewIndex' = RemovePreviewIndex(previewIndex, Len(images))
    /\ lastEvent' = "removeImage"
    /\ UNCHANGED <<viewVars, apiVars, isOpen, initialData, type, content, hasDuration,
                   duration, hasImages, isUploading, authToken, upload, saved>>

\* The link input of the previewed image: handleUpdateLink(previewIndex, value)
handleUpdateLink(link) ==
    /\ GalleryRendered
    /\ imageLinks' = UpdateLink(imageLinks, previewIndex, link)
    /\ lastEvent' = "edit"
    /\ UNCHANGED <<viewVars, apiVars, isOpen, initialData, type, content, hasDuration,
                   duration, hasImages, images, previewIndex, isUploading,
                   authToken, upload, saved>>

\* handleClose, from Cancel or from the modal: the reset when creating, then
\* onClose(); the parent sets isOpen to false and the effect on
\* [initialData, isOpen] runs again.
handleClose ==
    /\ isOpen
    /\ isOpen' = FALSE
    /\ SetForm(RunEffect(CloseForm(Form, initialData), initialData, TRUE))
    /\ lastEvent' = "close"
    /\ UNCHANGED <<viewVars, apiVars, initialData, isUploading, authToken, upload, saved>>

\* handleSave: a press of the save button. With nothing to save the button is
\* disabled and the handler returns after its alert; otherwise onSave is
\* called and handleClose runs.
handleSave ==
    /\ isOpen
    /\ IF NothingToSave
       THEN UNCHANGED <<isOpen, formVars, saved>>
       ELSE /\ saved' = Append(saved, OnSaveCall)
            /\ isOpen' = FALSE
            /\ SetForm(RunEffect(CloseForm(Form, initialData), initialData, TRUE))
    /\ lastEvent' = "save"
    /\ UNCHANGED <<viewVars, apiVars, initialData, isUploading, authToken, upload>>

\* handleDelete, confirmed: the button is rendered when editing.
handleDelete ==
    /\ isOpen
    /\ initialData # None
    /\ saved' = Append(saved, OnDeleteCall)
    /\ isOpen' = FALSE
    /\ SetForm(RunEffect(CloseForm(Form, initialData), initialData, TRUE))
    /\ lastEvent' = "delete"
    /\ UNCHANGED <<viewVars, apiVars, initialData, isUploading, authToken, upload>>

\* A slip: the button stays enabled during an upload.
UploadEnabled_Always == TRUE

\* The upload button: disabled={isUploading}
UploadEnabled == ~isUploading

\* The suspended calls of handleFileUpload without the k-th, and with the
\* k-th replaced.
WithoutCall(k) == [j \in 1..(Len(upload) - 1) |-> IF j < k THEN upload[j] ELSE upload[j + 1]]
WithCall(k, call) == [upload EXCEPT ![k] = call]

\* A slip: setIsUploading(false) follows the loop inside the try block instead
\* of standing in a finally block.
IsUploadingAfter_NoFinally(outcome, last) ==
    IF outcome = "throws" THEN isUploading ELSE ~last

\* isUploading after an iteration of the upload loop: the finally block sets
\* it to false when the loop is left, by an exception or after the last file.
IsUploadingAfter(outcome, last) ==
    IF outcome = "throws" \/ last THEN FALSE ELSE isUploading

\* A slip: the upload goes on without looking at the cookie.
TokenPresent_Always == TRUE

\* const token = Cookies.get('auth_token'); if (!token) ...
TokenPresent == authToken

\* handleFileUpload up to its first await: the validation of the whole batch,
\* setIsUploading(true), the cookie, and the first request. The upload button
\* is rendered when hasImages and disabled while isUploading.
handleFileUpload(files) ==
    /\ isOpen
    /\ hasImages
    /\ UploadEnabled
    /\ Len(files) + Max(Len(images), Len(InitialImages(initialData))) <= MaxEditorImages
    /\ IF ~BatchValid(files)
       THEN /\ lastEvent' = "uploadInvalid"
            /\ UNCHANGED <<isUploading, upload>>
       ELSE IF ~TokenPresent
       THEN /\ lastEvent' = "uploadNoToken"
            /\ UNCHANGED <<isUploading, upload>>
       ELSE /\ lastEvent' = "uploadStart"
            /\ isUploading' = TRUE
            /\ upload' = Append(upload, [files |-> files, i |-> 1, uploadedUrls |-> <<>>,
                                         oks |-> <<>>])
    /\ UNCHANGED <<viewVars, apiVars, isOpen, initialData, formVars, authToken, saved>>

\* What comes back for a request: no response (fetch or response.text()
\* rejects), or a response with response.ok and a body. A body is a JSON
\* object, a text without '{', or a text with '{' that is not JSON.
Bodies == {"json", "text", "brace"}

NoResponse == [received |-> FALSE, ok |-> FALSE, body |-> "text"]

Responses ==
    {NoResponse} \cup {[received |-> TRUE, ok |-> o, body |-> b] : o \in BOOLEAN, b \in Bodies}

\* text.includes('{')
IncludesBrace(body) == body \in {"json", "brace"}

\* Whether JSON.parse(text) returns.
Parses(body) == body = "json"

\* One iteration of the upload loop after its awaits: "rejected" is the alert
\* and continue of a response that is not ok, "ok" the push of data.imageUrl,
\* "throws" an exception, which leaves the loop for the catch block.
Outcome(resp) ==
    IF ~resp.received THEN "throws"
    ELSE IF ~resp.ok
    THEN IF IncludesBrace(resp.body) /\ ~Parses(resp.body) THEN "throws" ELSE "rejected"
    ELSE IF Parses(resp.body) THEN "ok" ELSE "throws"

\* The kind of a response, as the event handled (history).
ResponseEvent(resp) ==
    IF ~resp.received THEN "responseFailed"
    ELSE IF ~resp.ok THEN "responseNotOk"
    ELSE IF Parses(resp.body) THEN "responseOk" ELSE "responseUnreadable"

ResponseEvents == {"responseFailed", "responseNotOk", "responseOk", "responseUnreadable"}

\* handleFileUpload resumed by the response to the request for file i. After
\* the last file the uploaded references and as many empty links are appended;
\* finally setIsUploading(false). oks records which files so far got a success
\* response (history).
UploadResponse(resp) ==
    /\ \E k \in 1..Len(upload) :
          LET u       == upload[k]
              outcome == Outcome(resp)
              last    == u.i = Len(u.files)
              urls    == IF outcome = "ok"
                         THEN Append(u.uploadedUrls, u.files[u.i].url)
                         ELSE u.uploadedUrls
          IN  /\ isUploading' = IsUploadingAfter(outcome, last)
              /\ IF outcome = "throws"
                 THEN /\ upload' = WithoutCall(k)
                      /\ UNCHANGED <<images, imageLinks>>
                 ELSE IF ~last
                 THEN /\ upload' = WithCall(k, [u EXCEPT !.i = @ + 1, !.uploadedUrls = urls,
                                                          !.oks = Append(@, resp.received /\ resp.ok)])
                      /\ UNCHANGED <<images, imageLinks>>
                 ELSE /\ upload' = WithoutCall(k)
                      /\ images' = images \o urls
                      /\ imageLinks' = Spread(imageLinks) \o EmptyLinks(Len(urls))
    /\ lastEvent' = ResponseEvent(resp)
    /\ UNCHANGED <<viewVars, apiVars, isOpen, initialData, type, content, hasDuration,
                   duration, hasImages, previewIndex, authToken, saved>>

InitEditor ==
    /\ ViewInit
    /\ blockImage = <<>>
    /\ EditorIdle
    /\ UploadIdle
    /\ ProfileIdle({1})
    /\ authToken \in BOOLEAN
    /\ lastEvent = "init"

NextEditor ==
    \/ \E data \in InitialDatas : OpenEditor(data)
    \/ \E t \in BlockTypes : SetType(t)
    \/ \E text \in Texts : SetContent(text)
    \/ \E b \in BOOLEAN : SetHasDuration(b)
    \/ \E text \in Texts : SetDuration(text)
    \/ \E b \in BOOLEAN : SetHasImages(b)
    \/ PreviewPrevious
    \/ PreviewNext
    \/ \E idx \in 0..(MaxEditorImages - 1) : SelectThumbnail(idx)
    \/ \E idx \in 0..(MaxEditorImages - 1) : handleRemoveImage(idx)
    \/ \E link \in Links : handleUpdateLink(link)
    \/ handleClose
    \/ handleSave
    \/ handleDelete
    \/ \E files \in Batches : handleFileUpload(files)
    \/ \E resp \in Responses : UploadResponse(resp)

SpecEditor == InitEditor /\ [][NextEditor]_vars

\* The steps of the editor that read or write isUploading, the suspended
\* calls, the images, or whether the editor and its image section are shown.
\* The steps of NextEditor left out (type, content, duration, preview index,
\* link) leave isUploading and upload unchanged and are read by none of the
\* guards below but handleSave's.
NextUploading ==
    \/ \E data \in InitialDatas : OpenEditor(data)
    \/ \E b \in BOOLEAN : SetHasImages(b)
    \/ \E idx \in 0..(MaxEditorImages - 1) : handleRemoveImage(idx)
    \/ handleClose
    \/ handleSave
    \/ handleDelete
    \/ \E files \in Batches : handleFileUpload(files)
    \/ \E resp \in Responses : UploadResponse(resp)

\* The editor under the assumption that the network answers: every request of
\* a suspended handleFileUpload call is eventually settled, by a response or
\* by a failure (both are steps of UploadResponse).
SpecEditorFair ==
    InitEditor /\ [][NextUploading]_vars /\ WF_vars(\E resp \in Responses : UploadResponse(resp))

----------------------------------------------------------------------------
(* app/api/upload/route.ts                                                 *)

\* process.env.ADMIN_EMAIL, and the email of another account.
ADMIN_EMAIL == "admin"
OtherEmail == "other"

\* The Authorization header of a request: absent, or a value that may start
\* with 'Bearer ' and carry a token; verifies tells whether jwtVerify accepts
\* the token under SESSION_SECRET, email is the token's email claim.
AuthHeaders ==
    {[present |-> FALSE, bearer |-> FALSE, verifies |-> FALSE, email |-> OtherEmail],
     [present |-> TRUE, bearer |-> FALSE, verifies |-> FALSE, email |-> OtherEmail],
     [present |-> TRUE, bearer |-> FALSE, verifies |-> TRUE, email |-> ADMIN_EMAIL],
     [present |-> TRUE, bearer |-> TRUE, verifies |-> FALSE, email |-> ADMIN_EMAIL],
     [present |-> TRUE, bearer |-> TRUE, verifies |-> TRUE, email |-> OtherEmail],
     [present |-> TRUE, bearer |-> TRUE, verifies |-> TRUE, email |-> ADMIN_EMAIL]}

\* A slip: the email of a verified token is not compared.
verifyToken_AnyEmail(authHeader) ==
    IF ~authHeader.present \/ ~authHeader.bearer THEN None
    ELSE IF ~authHeader.verifies THEN None
    ELSE Some([email |-> authHeader.email])

\* verifyToken: the payload, or null. jwtVerify throws for a token it does not
\* accept and the catch returns null.
verifyToken(authHeader) ==
    IF ~authHeader.present \/ ~authHeader.bearer THEN None
    ELSE IF ~authHeader.verifies THEN None
    ELSE IF authHeader.email # ADMIN_EMAIL THEN None
    ELSE Some([email |-> authHeader.email])

\* The route's own validation constants.
uploadValidTypes == {"image/jpeg", "image/jpg", "image/png", "image/gif", "image/webp"}
uploadMaxSize == 5 * 1024 * 1024

\* Contents of a file, as bytes.
FileBytes == {<<>>, <<0>>, <<255>>}

\* buffer.toString('base64') on these contents.
Base64(bytes) ==
    CASE bytes = <<>>    -> ""
      [] bytes = <<0>>   -> "AA=="
      [] bytes = <<255>> -> "/w=="

\* Files posted under the field 'image': size is File.size, which the route
\* compares, bytes is the content it encodes.
PostedFiles ==
    {[name |-> "a.png", type |-> "image/png", size |-> uploadMaxSize, bytes |-> <<0>>],
     [name |-> "b.jpg", type |-> "image/jpeg", size |-> 1, bytes |-> <<255>>],
     [name |-> "c.gif", type |-> "image/gif", size |-> 0, bytes |-> <<>>],
     [name |-> "g.webp", type |-> "image/webp", size |-> 2, bytes |-> <<0>>],
     [name |-> "d.pdf", type |-> "application/pdf", size |-> 1, bytes |-> <<0>>],
     [name |-> "e.png", type |-> "image/png", size |-> uploadMaxSize + 1, bytes |-> <<255>>],
     [name |-> "f.txt", type |-> "text/plain", size |-> uploadMaxSize + 1, bytes |-> <<0>>]}

\* The requests: a header and formData.get('image'), a file or null.
UploadRequests ==
    [auth : AuthHeaders, image : {None} \cup {Some(f) : f \in PostedFiles}]

\* NextResponse.json(body, {status}); the status is 200 when none is given.
Json(status, body) == [status |-> status, body |-> body]

\* `data:${file.type};base64,${base64}`
DataUrl(file) == <<"data:", file.type, ";base64,", Base64(file.bytes)>>

\* The checks between formData() and arrayBuffer(): a response, or <<>> when
\* the file passes.
ValidateUpload(image) ==
    IF image = None
    THEN Some(Json(400, [error |-> "No image file provided"]))
    ELSE IF image[1].type \notin uploadValidTypes
    THEN Some(Json(400, [error |-> "Invalid file type. Only JPEG, PNG, GIF, and WebP are allowed."]))
    ELSE IF image[1].size > uploadMaxSize
    THEN Some(Json(400, [error |-> "File too large. Maximum size is 5MB."]))
    ELSE None

\* The catch block's response.
UploadFailure == Json(500, [error |-> "Failed to upload image"])

\* A request arrives; POST starts and awaits verifyToken.
UploadReceive(req) ==
    /\ upPc = "idle"
    /\ upPc' = "verifyToken"
    /\ upRequest' = Some(req)
    /\ upFailed' = FALSE
    /\ upResponse' = None
    /\ UNCHANGED <<viewVars, lastEvent, editorVars, profileVars>>

\* verifyToken has returned: 401 without a user, else await request.formData().
UploadVerified ==
    /\ upPc = "verifyToken"
    /\ IF verifyToken(upRequest[1].auth) = None
       THEN /\ upPc' = "done"
            /\ upResponse' = Some(Json(401, [error |-> "Unauthorized"]))
       ELSE /\ upPc' = "formData"
            /\ upResponse' = None
    /\ UNCHANGED <<viewVars, lastEvent, editorVars, profileVars, upRequest, upFailed>>

\* request.formData() has settled: a rejection goes to the catch block; else
\* the checks run and, for a file that passes, file.arrayBuffer() is awaited.
UploadFormData(throws) ==
    /\ upPc = "formData"
    /\ upFailed' = throws
    /\ IF throws
       THEN /\ upPc' = "done"
            /\ upResponse' = Some(UploadFailure)
       ELSE IF ValidateUpload(upRequest[1].image) # None
       THEN /\ upPc' = "done"
            /\ upResponse' = ValidateUpload(upRequest[1].image)
       ELSE /\ upPc' = "arrayBuffer"
            /\ upResponse' = None
    /\ UNCHANGED <<viewVars, lastEvent, editorVars, profileVars, upRequest>>

\* file.arrayBuffer() has settled: a rejection goes to the catch block; else
\* the success body is returned.
UploadArrayBuffer(throws) ==
    /\ upPc = "arrayBuffer"
    /\ upFailed' = throws
    /\ upPc' = "done"
    /\ LET file == upRequest[1].image[1]
       IN  upResponse' =
               IF throws THEN Some(UploadFailure)
               ELSE Some(Json(200, [success |-> TRUE, imageUrl |-> DataUrl(file),
                                    fileName |-> file.name, fileSize |-> file.size]))
    /\ UNCHANGED <<viewVars, lastEvent, editorVars, profileVars, upRequest>>

\* The response has been sent; the route is ready for another request.
UploadReturn ==
    /\ upPc = "done"
    /\ upPc' = "idle"
    /\ upRequest' = None
    /\ upFailed' = FALSE
    /\ upResponse' = None
    /\ UNCHANGED <<viewVars, lastEvent, editorVars, profileVars>>

InitUpload ==
    /\ ViewInit
    /\ blockImage = <<>>
    /\ EditorIdle
    /\ authToken = TRUE
    /\ UploadIdle
    /\ ProfileIdle({1})
    /\ lastEvent = "init"

NextUpload ==
    \/ \E req \in UploadRequests : UploadReceive(req)
    \/ UploadVerified
    \/ \E throws \in BOOLEAN : UploadFormData(throws)
    \/ \E throws \in BOOLEAN : UploadArrayBuffer(throws)
    \/ UploadReturn

SpecUpload == InitUpload /\ [][NextUpload]_vars

----------------------------------------------------------------------------
(* app/api/profile/route.ts                                                *)

\* A slip: the 'Bearer ' prefix is not required.
profileVerifyToken_AnyScheme(authHeader) ==
    IF ~authHeader.present THEN None
    ELSE IF ~authHeader.verifies THEN None
    ELSE IF authHeader.email # ADMIN_EMAIL THEN None
    ELSE Some([email |-> authHeader.email])

\* verifyToken of the profile route: the payload, or null.
profileVerifyToken(authHeader) ==
    IF ~authHeader.present \/ ~authHeader.bearer THEN None
    ELSE IF ~authHeader.verifies THEN None
    ELSE IF authHeader.email # ADMIN_EMAIL THEN None
    ELSE Some([email |-> authHeader.email])

\* The built-in default document, and the documents a client posts.
defaultProfile == [name |-> "default"]
PostedProfiles == {[name |-> "P"], [name |-> "Q"]}

\* The POST requests: a header and the body request.json() reads.
ProfileRequests == [auth : AuthHeaders, doc : PostedProfiles]

\* JSON.stringify(profile), and the value the JSONB column gives back.
JsonStringify(doc) == <<"json", doc>>
JsonbValue(text) == text[2]

\* SELECT ... ORDER BY id DESC LIMIT 1: the row of the largest id, if any.
LatestRow == IF table = <<>> THEN None ELSE Some(table[Len(table)])

\* INSERT INTO portfolio (data) VALUES (text): SERIAL gives the next id.
InsertRow(text) == Append(table, [id |-> Len(table) + 1, data |-> JsonbValue(text)])

\* UPDATE portfolio SET data = text WHERE id = id
UpdateRow(id, text) ==
    [k \in 1..Len(table) |->
        IF table[k].id = id THEN [table[k] EXCEPT !.data = JsonbValue(text)] ELSE table[k]]

\* A slip: the catch block of GET answers with an error.
GetFallback_Error == Json(500, [error |-> "Failed to load profile"])

\* GET's catch block: NextResponse.json(defaultProfile)
GetFallback == Json(200, defaultProfile)

\* POST's catch block.
PostFailure == Json(500, [error |-> "Failed to save profile"])

PostSuccess == Json(200, [success |-> TRUE, message |-> "Profile saved successfully"])

\* Whether a POST invocation is in flight in some slot.
PostInFlight ==
    \E q \in DOMAIN handler : handler[q].kind = "POST" /\ handler[q].pc # "done"

\* A handler that has computed its response.
Done(h, response, threw) == [h EXCEPT !.pc = "done", !.resp = Some(response), !.failed = threw]

\* GET is invoked; it awaits CREATE TABLE IF NOT EXISTS.
GetReceive(p) ==
    /\ handler[p].pc = "idle"
    /\ handler' = [handler EXCEPT ![p] =
                      [IdleHandler EXCEPT !.pc = "createTable", !.kind = "GET",
                                          !.expect = lastSaved, !.overlap = PostInFlight]]
    /\ UNCHANGED <<viewVars, lastEvent, editorVars, uploadVars, tableExists, table, lastSaved>>

\* CREATE TABLE has settled; GET awaits the SELECT of the latest row.
GetCreateTable(p, throws) ==
    /\ handler[p].kind = "GET"
    /\ handler[p].pc = "createTable"
    /\ IF throws
       THEN /\ handler' = [handler EXCEPT ![p] = Done(@, GetFallback, TRUE)]
            /\ UNCHANGED tableExists
       ELSE /\ handler' = [handler EXCEPT ![p].pc = "select"]
            /\ tableExists' = TRUE
    /\ UNCHANGED <<viewVars, lastEvent, editorVars, uploadVars, table, lastSaved>>

\* The SELECT has settled: with a row GET returns its data, without one it
\* awaits the INSERT of the default document.
GetSelect(p, throws) ==
    /\ handler[p].kind = "GET"
    /\ handler[p].pc = "select"
    /\ handler' = [handler EXCEPT ![p] =
                      IF throws \/ ~tableExists THEN Done(@, GetFallback, TRUE)
                      ELSE IF LatestRow = None THEN [@ EXCEPT !.pc = "insert"]
                      ELSE Done([@ EXCEPT !.found = LatestRow], Json(200, LatestRow[1].data), FALSE)]
    /\ UNCHANGED <<viewVars, lastEvent, editorVars, uploadVars, tableExists, table, lastSaved>>

\* The INSERT of the default document has settled; GET returns the default.
GetInsert(p, throws) ==
    /\ handler[p].kind = "GET"
    /\ handler[p].pc = "insert"
    /\ IF throws \/ ~tableExists
       THEN /\ handler' = [handler EXCEPT ![p] = Done(@, GetFallback, TRUE)]
            /\ UNCHANGED table
       ELSE /\ handler' = [handler EXCEPT ![p] = Done(@, Json(200, defaultProfile), FALSE)]
            /\ table' = InsertRow(JsonStringify(defaultProfile))
    /\ UNCHANGED <<viewVars, lastEvent, editorVars, uploadVars, tableExists, lastSaved>>

\* POST is invoked; it awaits verifyToken. Every GET in flight now overlaps
\* a POST.
PostReceive(p, req) ==
    /\ handler[p].pc = "idle"
    /\ handler' = [q \in DOMAIN handler |->
                      IF q = p
                      THEN [IdleHandler EXCEPT !.pc = "verifyToken", !.kind = "POST",
                                               !.auth = Some(req.auth), !.doc = Some(req.doc)]
                      ELSE IF handler[q].kind = "GET" /\ handler[q].pc # "done"
                      THEN [handler[q] EXCEPT !.overlap = TRUE]
                      ELSE handler[q]]
    /\ UNCHANGED <<viewVars, lastEvent, editorVars, uploadVars, tableExists, table, lastSaved>>

\* verifyToken has returned: 401 without a user, else await request.json().
PostVerified(p) ==
    /\ handler[p].kind = "POST"
    /\ handler[p].pc = "verifyToken"
    /\ handler' = [handler EXCEPT ![p] =
                      IF profileVerifyToken(@.auth[1]) = None
                      THEN Done(@, Json(401, [error |-> "Unauthorized"]), FALSE)
                      ELSE [@ EXCEPT !.pc = "json"]]
    /\ UNCHANGED <<viewVars, lastEvent, editorVars, uploadVars, tableExists, table, lastSaved>>

\* request.json() has settled; POST awaits the SELECT of the latest id.
PostJson(p, throws) ==
    /\ handler[p].kind = "POST"
    /\ handler[p].pc = "json"
    /\ handler' = [handler EXCEPT ![p] =
                      IF throws THEN Done(@, PostFailure, TRUE) ELSE [@ EXCEPT !.pc = "select"]]
    /\ UNCHANGED <<viewVars, lastEvent, editorVars, uploadVars, tableExists, table, lastSaved>>

\* The SELECT has settled (it fails on a database without the table); POST
\* awaits the INSERT, or the UPDATE of the row it found.
PostSelect(p, throws) ==
    /\ handler[p].kind = "POST"
    /\ handler[p].pc = "select"
    /\ handler' = [handler EXCEPT ![p] =
                      IF throws \/ ~tableExists THEN Done(@, PostFailure, TRUE)
                      ELSE [@ EXCEPT !.pc = "write", !.found = LatestRow]]
    /\ UNCHANGED <<viewVars, lastEvent, editorVars, uploadVars, tableExists, table, lastSaved>>

\* The INSERT or UPDATE has settled; POST returns success.
PostWrite(p, throws) ==
    /\ handler[p].kind = "POST"
    /\ handler[p].pc = "write"
    /\ IF throws
       THEN /\ handler' = [handler EXCEPT ![p] = Done(@, PostFailure, TRUE)]
            /\ UNCHANGED <<table, lastSaved>>
       ELSE /\ handler' = [handler EXCEPT ![p] = Done(@, PostSuccess, FALSE)]
            /\ table' = IF handler[p].found = None
                         THEN InsertRow(JsonStringify(handler[p].doc[1]))
                         ELSE UpdateRow(handler[p].found[1].id, JsonStringify(handler[p].doc[1]))
            /\ lastSaved' = handler[p].doc
    /\ UNCHANGED <<viewVars, lastEvent, editorVars, uploadVars, tableExists>>

\* The response has been sent; the slot is free for another invocation.
ProfileReturn(p) ==
    /\ handler[p].pc = "done"
    /\ handler' = [handler EXCEPT ![p] = IdleHandler]
    /\ UNCHANGED <<viewVars, lastEvent, editorVars, uploadVars, tableExists, table, lastSaved>>

\* The steps of the profile route's invocation in slot p.
ProfileStep(p) ==
    \/ GetReceive(p)
    \/ \E throws \in BOOLEAN : GetCreateTable(p, throws)
    \/ \E throws \in BOOLEAN : GetSelect(p, throws)
    \/ \E throws \in BOOLEAN : GetInsert(p, throws)
    \/ \E req \in ProfileRequests : PostReceive(p, req)
    \/ PostVerified(p)
    \/ \E throws \in BOOLEAN : PostJson(p, throws)
    \/ \E throws \in BOOLEAN : PostSelect(p, throws)
    \/ \E throws \in BOOLEAN : PostWrite(p, throws)
    \/ ProfileReturn(p)

\* The invocations of the profile route that run at the same time.
Handlers == {1, 2}

InitProfile ==
    /\ ViewInit
    /\ blockImage = <<>>
    /\ EditorIdle
    /\ authToken = TRUE
    /\ UploadIdle
    /\ ProfileIdle(Handlers)
    /\ lastEvent = "init"

NextProfile == \E p \in Handlers : ProfileStep(p)

SpecProfile == InitProfile /\ [][NextProfile]_vars

\* The two routes side by side: the upload route and one invocation of the
\* profile route.
NextAuth == NextUpload \/ ProfileStep(1)

SpecAuth == InitUpload /\ [][NextAuth]_vars

----------------------------------------------------------------------------
(* Claims about the editor                                                 *)

\* The data model's rule for a block: non-empty content after trimming, or at
\* least one image.
BlockRule(call) ==
    \/ Trim(call.content) # ""
    \/ call.images # None /\ Len(call.images[1]) >= 1

\* C1 (as claimed): every block the editor emits through onSave has non-empty
\* content (after trimming) or at least one image in its images argument, also
\* when images were uploaded and the image toggle was then switched off.
C1_EmittedBlockRule ==
    \A k \in 1..Len(saved) : saved[k].fn = "onSave" => BlockRule(saved[k])

\* C2: a save with blank text and no image is rejected (no onSave call, the
\* editor stays open, its state is unchanged); a save with blank text and at
\* least one image, or with non-blank text and no image, calls onSave exactly
\* once and closes the editor.
C2_SaveAcceptance ==
    [][(lastEvent' = "save" /\ isOpen) =>
          /\ (Trim(content) = "" /\ Len(images) = 0)
               => (saved' = saved /\ isOpen' /\ UNCHANGED formVars)
          /\ ((Trim(content) = "" /\ Len(images) >= 1)
                 \/ (Trim(content) # "" /\ Len(images) = 0))
               => /\ Len(saved') = Len(saved) + 1
                  /\ saved'[Len(saved')].fn = "onSave"
                  /\ \A k \in 1..Len(saved) : saved'[k] = saved[k]
                  /\ ~isOpen']_vars

\* C2's case: a block with blank text and one image was saved, and the editor
\* closed.
C2_Witness ==
    /\ lastEvent = "save"
    /\ ~isOpen
    /\ Len(saved) = 1
    /\ saved[1].fn = "onSave"
    /\ saved[1].content = " "
    /\ saved[1].images = Some(<<"A">>)

----------------------------------------------------------------------------
(* Claims about the carousel                                               *)

ValidIndex(i, len) == i \in 0..(len - 1)

\* C3 (as claimed): in every reachable state of a carousel with total > 0
\* images, 0 <= activeIndex < total, also after the block's image sequence was
\* replaced by a sequence of another length.
C3_IndexInRange == total > 0 => ValidIndex(activeIndex, total)

\* C4: with total >= 1 and activeIndex in 0..total-1, next() sets activeIndex
\* to (activeIndex + 1) mod total and previous() sets it to
\* (activeIndex - 1 + total) mod total; with total <= 1 both leave it unchanged.
C4_NextPrevious ==
    [][/\ (lastEvent' = "next" /\ total >= 1 /\ ValidIndex(activeIndex, total))
            => activeIndex' = (activeIndex + 1) % total
       /\ (lastEvent' = "previous" /\ total >= 1 /\ ValidIndex(activeIndex, total))
            => activeIndex' = (activeIndex - 1 + total) % total
       /\ (lastEvent' \in {"next", "previous"} /\ total <= 1)
            => activeIndex' = activeIndex]_vars

\* C4's case: next() wrapped around from the last image to the first.
C4_Witness ==
    /\ lastEvent = "next"
    /\ total >= 3
    /\ run = [kind |-> "next", start |-> total - 1, n |-> 1]
    /\ activeIndex = 0

\* C5 (as claimed): next() followed by total repeated next() calls, total + 1
\* calls in all, returns activeIndex to the value it had before the first.
C5_Original ==
    (run.kind = "next" /\ total > 0 /\ run.n = total + 1) => activeIndex = run.start

\* C5 (amended): total repeated next() calls return activeIndex to the value it
\* had before them, for every starting index in 0..total-1.
C5_Circular ==
    (run.kind = "next" /\ total > 0 /\ run.n = total /\ ValidIndex(run.start, total))
        => activeIndex = run.start

\* C5's case: a full cycle of next() over several images, from a middle index.
C5_Witness ==
    /\ run.kind = "next"
    /\ total >= 3
    /\ run.n = total
    /\ run.start = 1
    /\ activeIndex = 1

\* C6 (as claimed): whenever the block's image sequence is replaced by a
\* different sequence, activeIndex is reset to 0.
C6_ResetOnReplace == [][blockImage' # blockImage => activeIndex' = 0]_vars

----------------------------------------------------------------------------
(* Claims about the lightbox                                               *)

\* C7: on every open of the lightbox, the first and every later one, its
\* currentIndex right after opening is the carousel's activeIndex at the moment
\* of the open request, whatever index the lightbox had when last closed.
C7_OpenSeedsIndex ==
    [][(~LightboxMounted /\ LightboxMounted') => currentIndex' = activeIndex]_vars

\* C7's case: the lightbox was re-opened on several images at a later index.
C7_Witness ==
    /\ lastEvent = "imageClick"
    /\ LightboxMounted
    /\ total >= 3
    /\ activeIndex = 2
    /\ currentIndex = 2

LightboxNavEvents == {"ArrowLeft", "ArrowRight", "prevButton", "nextButton", "thumbnail"}

ArrowKeys == {"ArrowLeft", "ArrowRight"}

\* C9: with the lightbox open on n > 1 images at the index i (0 <= i < n), k
\* presses of ArrowRight give (i + k) mod n and k presses of ArrowLeft give
\* (i - k) mod n; with n <= 1 the arrow keys leave currentIndex unchanged; with
\* the lightbox closed they change nothing.
C9_ArrowKeys ==
    [][/\ (run'.kind = "ArrowRight" /\ LightboxMounted' /\ total > 1
              /\ ValidIndex(run'.start, total))
            => currentIndex' = (run'.start + run'.n) % total
       /\ (run'.kind = "ArrowLeft" /\ LightboxMounted' /\ total > 1
              /\ ValidIndex(run'.start, total))
            => currentIndex' = (run'.start + run'.n * (total - 1)) % total
       /\ (lastEvent' \in ArrowKeys /\ LightboxMounted /\ total <= 1)
            => currentIndex' = currentIndex
       /\ (lastEvent' \in ArrowKeys /\ ~LightboxMounted)
            => UNCHANGED <<blockImage, activeIndex, lightboxOpen, currentIndex>>]_vars

\* C9's case: five images, opened at index 2, ArrowRight pressed three times.
C9_Witness ==
    /\ lastEvent = "ArrowRight"
    /\ LightboxMounted
    /\ total = 5
    /\ run = [kind |-> "ArrowRight", start |-> 2, n |-> 3]
    /\ currentIndex = 0

\* C10: while the lightbox is open, Escape and a click on the backdrop itself
\* close it; a click on the image, on the previous or next button or on a
\* thumbnail, and an arrow key, never close it.
C10_CloseTriggers ==
    [][/\ (LightboxMounted /\ lastEvent' \in {"Escape", "backdrop"})
            => ~lightboxOpen'
       /\ (LightboxMounted
              /\ lastEvent' \in {"image", "prevButton", "nextButton", "thumbnail"} \cup ArrowKeys)
            => lightboxOpen']_vars

\* C10's case: a thumbnail was clicked and the lightbox is still open, on the
\* image chosen.
C10_Witness ==
    /\ lastEvent = "thumbnail"
    /\ LightboxMounted
    /\ currentIndex # activeIndex

\* C11: page scroll is suspended in every state in which the lightbox is open
\* and restored in every state reached by closing it, on every close path
\* (Escape, backdrop, close button, unmount of the lightbox or of its parent):
\* after any sequence of events scroll is suspended iff the lightbox is open.
C11_ScrollIffOpen == ScrollSuspended <=> LightboxMounted

\* C11's case: the block was removed by its parent while its lightbox was
\* open, and the cleanup restored the scroll.
C11_Witness ==
    /\ lastEvent = "remount"
    /\ ~LightboxMounted
    /\ bodyOverflow = "unset"

----------------------------------------------------------------------------
(* Claims about the upload                                                 *)

UploadEvents == {"uploadInvalid", "uploadNoToken", "uploadStart"}

\* A batch with a file of a type outside the allow-list or above 5 MiB.
HasInvalidFile(files) ==
    \E k \in 1..Len(files) :
        files[k].type \notin validTypes \/ files[k].size > 5 * 1024 * 1024

\* C12: if any file of a selected batch has a type outside the allow-list or a
\* size above 5 MiB, no upload request is issued for any file of the batch and
\* images, imageLinks and the uploading flag are unchanged.
C12_AllOrNothing ==
    [][\A files \in Batches :
          (lastEvent' \in UploadEvents /\ HasInvalidFile(files) /\ handleFileUpload(files))
              => UNCHANGED <<images, imageLinks, isUploading, upload>>]_vars

\* C12's case: a batch with an invalid file was selected in an editor that
\* holds an image; no request is in flight.
C12_Witness ==
    /\ lastEvent = "uploadInvalid"
    /\ Len(images) >= 1
    /\ ~isUploading
    /\ upload = <<>>

\* The references of the files that got a success response, in selection order.
RECURSIVE SuccessRefs(_, _)
SuccessRefs(files, oks) ==
    IF oks = <<>> THEN <<>>
    ELSE LET n == Len(oks)
         IN  SuccessRefs(files, SubSeq(oks, 1, n - 1))
                 \o (IF oks[n] THEN <<files[n].url>> ELSE <<>>)

\* C13 (as claimed): in a batch that passed the pre-validation with a
\* credential, a response that is not a success for file N is skipped and the
\* request for file N+1 is issued; when the batch ends, images is its previous
\* value followed by the references of exactly the successful files in
\* selection order, and imageLinks (as read by index) its previous value
\* followed by as many empty strings.
C13_PerFileTolerance ==
    [][(upload # <<>> /\ lastEvent' \in ResponseEvents) =>
          LET u    == upload[1]
              oks  == Append(u.oks, lastEvent' = "responseOk")
              refs == SuccessRefs(u.files, oks)
          IN  /\ (lastEvent' = "responseNotOk" /\ u.i < Len(u.files))
                    => (upload' # <<>> /\ upload'[1].i = u.i + 1)
              /\ (lastEvent' \in {"responseOk", "responseNotOk"} /\ u.i = Len(u.files))
                    => /\ upload' = <<>>
                       /\ images' = images \o refs
                       /\ Spread(imageLinks') = Spread(imageLinks) \o EmptyLinks(Len(refs))]_vars

\* C14: if no auth_token cookie is present when a validated batch is
\* submitted, no upload request is issued, images and imageLinks are
\* unchanged and the uploading flag is false when the handler returns.
C14_NoTokenAborts ==
    [][\A files \in Batches :
          (lastEvent' \in UploadEvents /\ ~authToken /\ ~HasInvalidFile(files)
              /\ handleFileUpload(files))
              => (UNCHANGED <<images, imageLinks, upload>> /\ ~isUploading')]_vars

\* C14's case: a valid batch was submitted without the cookie.
C14_Witness ==
    /\ lastEvent = "uploadNoToken"
    /\ ~authToken
    /\ hasImages
    /\ ~isUploading
    /\ upload = <<>>

----------------------------------------------------------------------------
(* Claims about the editor's images and links                              *)

\* arr[k] as JavaScript reads it: undefined for a hole and past the end.
ReadAt(arr, k) ==
    IF k \in 1..Len(arr) /\ arr[k] # Hole THEN arr[k] ELSE Undefined

\* The position before the removal of index idx of the entry now at k.
Before(k, idx) == IF k <= idx THEN k ELSE k + 1

\* C15 (as claimed): after every removal of an image from any reachable editor
\* state, images and imageLinks have equal length and every remaining image is
\* paired with the link it had before the removal.
C15_RemovalAligned ==
    [][\A idx \in 0..(MaxEditorImages - 1) :
          (lastEvent' = "removeImage" /\ handleRemoveImage(idx)) =>
              /\ Len(images') = Len(imageLinks')
              /\ \A k \in 1..Len(images') :
                    /\ images'[k] = images[Before(k, idx)]
                    /\ ReadAt(imageLinks', k) = ReadAt(imageLinks, Before(k, idx))]_vars

\* C16 (as claimed): removing index i from an editor whose images and
\* imageLinks both have length n > i yields images without its i-th entry and
\* imageLinks without its i-th entry, the other entries in their order.
C16_RemoveBoth ==
    [][\A idx \in 0..(MaxEditorImages - 1) :
          (lastEvent' = "removeImage" /\ handleRemoveImage(idx)
              /\ Len(images) = Len(imageLinks)) =>
              /\ Len(images') = Len(images) - 1
              /\ Len(imageLinks') = Len(imageLinks) - 1
              /\ \A k \in 1..(Len(images) - 1) :
                    /\ images'[k] = images[Before(k, idx)]
                    /\ ReadAt(imageLinks', k) = ReadAt(imageLinks, Before(k, idx))]_vars

\* C17: switching the image toggle off leaves images and imageLinks unchanged,
\* and a save performed while it is off passes neither images nor imageLinks
\* to onSave.
C17_ToggleProjects ==
    [][/\ (lastEvent' = "edit" /\ hasImages' # hasImages)
            => UNCHANGED <<images, imageLinks>>
       /\ (lastEvent' = "save" /\ ~hasImages /\ Len(saved') = Len(saved) + 1)
            => /\ saved'[Len(saved')].images = None
               /\ saved'[Len(saved')].imageLinks = None]_vars

\* C17's case: a block with blank text was saved without images; handleSave
\* accepts blank text only when the editor holds an image, so the toggle was
\* off over a non-empty images.
C17_Witness ==
    /\ lastEvent = "save"
    /\ Len(saved) = 1
    /\ saved[1].fn = "onSave"
    /\ Trim(saved[1].content) = ""
    /\ saved[1].images = None
    /\ saved[1].imageLinks = None

\* C18 (as claimed, for the states from the close up to the next open): after
\* the editor of a new block was closed, the form holds the defaults, and the
\* next open on a new block starts from them, also when an upload batch of the
\* closed session completes in between.
C18_CloseDiscards ==
    /\ (~isOpen /\ initialData = None) => Form = Defaults
    /\ (lastEvent = "open" /\ initialData = None) => Form = Defaults

----------------------------------------------------------------------------
(* Claims about the upload route                                           *)

\* A credential that verifies: a Bearer header whose token jwtVerify accepts
\* and whose email is the admin's.
Authenticated(auth) ==
    auth.present /\ auth.bearer /\ auth.verifies /\ auth.email = ADMIN_EMAIL

\* C20: a request whose credential does not verify gets 401 whether or not
\* its file is valid; an authenticated request with no file, a type outside
\* the allow-list or a size above 5 MiB gets 400; an authenticated request with
\* an allowed type and a size of at most 5 MiB gets a success body with a
\* data-URI reference and the echoed name and size; an internal failure gets
\* 500. Exactly one response is returned per request.
C20_UploadOutcome ==
    /\ upPc \in {"verifyToken", "formData", "arrayBuffer"} => upResponse = None
    /\ upPc = "done" =>
          LET req   == upRequest[1]
              resp  == upResponse[1]
              valid == /\ req.image # None
                       /\ req.image[1].type \in
                              {"image/jpeg", "image/jpg", "image/png", "image/gif", "image/webp"}
                       /\ req.image[1].size <= 5 * 1024 * 1024
          IN  /\ Len(upResponse) = 1
              /\ ~Authenticated(req.auth) => resp.status = 401
              /\ (Authenticated(req.auth) /\ upFailed) => resp.status = 500
              /\ (Authenticated(req.auth) /\ ~upFailed /\ ~valid) => resp.status = 400
              /\ (Authenticated(req.auth) /\ ~upFailed /\ valid) =>
                    /\ resp.status = 200
                    /\ resp.body.imageUrl[1] = "data:"
                    /\ resp.body.imageUrl[2] = req.image[1].type
                    /\ resp.body.imageUrl[4] = Base64(req.image[1].bytes)
                    /\ resp.body.fileName = req.image[1].name
                    /\ resp.body.fileSize = req.image[1].size

\* C20's case: a request with a valid file and a token of another account was
\* answered 401.
C20_Witness ==
    /\ upPc = "done"
    /\ upRequest[1].auth.verifies
    /\ upRequest[1].auth.email # ADMIN_EMAIL
    /\ upRequest[1].image # None
    /\ upRequest[1].image[1].type = "image/png"
    /\ upRequest[1].image[1].size = 5 * 1024 * 1024
    /\ upResponse[1].status = 401

----------------------------------------------------------------------------
(* Claims about the profile route                                          *)

Unauthorized == [status |-> 401, body |-> [error |-> "Unauthorized"]]

\* A POST invocation of the profile route whose credential does not verify.
UnauthenticatedPost(h) == h.kind = "POST" /\ ~Authenticated(h.auth[1])

\* C21: on the profile POST and the upload POST, an absent header, a header
\* without 'Bearer ', a token that fails verification and a verified token of
\* another email all get the same response, 401 with error 'Unauthorized', and
\* the stored profile document is left unchanged.
C21_UnauthorizedSame ==
    [][/\ (upPc' = "done" /\ ~Authenticated(upRequest'[1].auth))
            => upResponse' = <<Unauthorized>>
       /\ \A p \in DOMAIN handler :
             (UnauthenticatedPost(handler'[p]) /\ handler'[p].pc = "done")
                 => handler'[p].resp = <<Unauthorized>>
       /\ (uploadVars' # uploadVars /\ upPc' # "idle" /\ ~Authenticated(upRequest'[1].auth))
            => UNCHANGED <<tableExists, table>>
       /\ \A p \in DOMAIN handler :
             (handler'[p] # handler[p]
                 /\ (UnauthenticatedPost(handler[p]) \/ UnauthenticatedPost(handler'[p])))
                 => UNCHANGED <<tableExists, table>>]_vars

\* C21's case: with the default document stored, a POST whose header carries
\* the admin's valid token without 'Bearer ' was answered 401.
C21_Witness ==
    /\ handler[1].kind = "POST"
    /\ handler[1].pc = "done"
    /\ ~handler[1].auth[1].bearer
    /\ handler[1].auth[1].verifies
    /\ handler[1].auth[1].email = ADMIN_EMAIL
    /\ handler[1].resp[1].status = 401
    /\ Len(table) = 1
    /\ table[1].data = defaultProfile

\* C22: profile GET never propagates a failure: with no document stored it
\* stores the default document and returns it; with a document stored it
\* returns that document; when a database step fails it returns the built-in
\* default. The response is always a document with a success status.
C22_GetNeverFails ==
    [][\A p \in DOMAIN handler :
          LET h == handler[p]
              g == handler'[p]
          IN  (g.kind = "GET" /\ g.pc = "done" /\ h.pc # "done") =>
                  /\ g.resp[1].status = 200
                  /\ g.failed => g.resp[1].body = defaultProfile
                  /\ (~g.failed /\ h.pc = "select") =>
                        /\ table # <<>>
                        /\ g.resp[1].body = table[Len(table)].data
                        /\ table' = table
                  /\ (~g.failed /\ h.pc = "insert") =>
                        /\ Len(table') = Len(table) + 1
                        /\ table'[Len(table')].data = defaultProfile
                        /\ g.resp[1].body = defaultProfile]_vars

\* C22's case: with the document P stored, a GET whose database step failed
\* answered with the default document.
C22_Witness ==
    \E p \in DOMAIN handler :
        /\ handler[p].kind = "GET"
        /\ handler[p].pc = "done"
        /\ handler[p].failed
        /\ handler[p].resp[1] = [status |-> 200, body |-> defaultProfile]
        /\ table # <<>>
        /\ table[Len(table)].data = [name |-> "P"]

\* C23 (as claimed): after a POST of the document P has returned success, every
\* GET that starts later and runs with no POST in flight returns exactly P,
\* whatever the interleaving of the database steps of the handlers before.
C23_LastWriterWins ==
    \A p \in DOMAIN handler :
        (handler[p].kind = "GET" /\ handler[p].pc = "done" /\ ~handler[p].failed
            /\ ~handler[p].overlap /\ handler[p].expect # None)
            => handler[p].resp[1].body = handler[p].expect[1]

\* C24: uploads are strictly sequential. At most one call of handleFileUpload
\* is suspended at a request, so at most one request is in flight; the call
\* moves from file N to file N+1 only by a step that receives the response to
\* request N; and no call starts while another is in flight.
C24_SequentialUploads ==
    [][/\ Len(upload') <= 1
       /\ (lastEvent' = "uploadStart" /\ upload' # upload) => upload = <<>>
       /\ (upload # <<>> /\ upload' # <<>> /\ upload'[1].i # upload[1].i)
              => (/\ lastEvent' \in ResponseEvents
                  /\ upload'[1].files = upload[1].files
                  /\ upload'[1].i = upload[1].i + 1)]_vars

\* The second request of a batch of two is in flight, after the response to
\* the first.
C24_Witness ==
    /\ Len(upload) = 1
    /\ Len(upload[1].files) = 2
    /\ upload[1].i = 2
    /\ isUploading

\* C25: the upload button is disabled (isUploading) whenever a batch is in
\* flight; a call of handleFileUpload that ends, by the last response or by an
\* exception, leaves isUploading false; and when every request is eventually
\* settled, isUploading eventually becomes false again.
C25_DisabledUntilDone ==
    /\ [](upload # <<>> => isUploading)
    /\ [][(upload # <<>> /\ upload' = <<>>) => ~isUploading']_vars
    /\ isUploading ~> ~isUploading

\* A batch has ended by an exception and the button is enabled again.
C25_Witness ==
    /\ lastEvent \in {"responseFailed", "responseUnreadable"}
    /\ upload = <<>>
    /\ ~isUploading
    /\ isOpen

\* C26 (as claimed): when the step for a file of a batch ends in an exception
\* (no response, or a body that JSON.parse rejects), the references of the
\* files of the batch uploaded before it are appended to images, with as many
\* empty links.
C26_ExceptionKeepsUploaded ==
    [][\A resp \in Responses :
          (/\ lastEvent' \in ResponseEvents
           /\ upload # <<>>
           /\ Outcome(resp) = "throws"
           /\ UploadResponse(resp))
              => (/\ images' = images \o upload[1].uploadedUrls
                  /\ imageLinks' = Spread(imageLinks) \o EmptyLinks(Len(upload[1].uploadedUrls)))]_vars

\* C27: the keydown listeners of the lightbox do not leak. While the lightbox
\* is mounted (open) at most one Escape listener and at most one arrow-key
\* listener are registered on the document; while it is not (closed, which
\* for this carousel is unmounted) none is.
C27_NoListenerLeak ==
    IF LightboxMounted
    THEN listeners.escape <= 1 /\ listeners.keyNav <= 1
    ELSE listeners = NoListeners

\* The lightbox is open on several images after two or more ArrowRight presses
\* in a row, each of which ran both effects again, with one listener of each
\* kind.
C27_Witness ==
    /\ LightboxMounted
    /\ total > 1
    /\ lastEvent = "ArrowRight"
    /\ run.n > 1
    /\ currentIndex # activeIndex
    /\ listeners = [escape |-> 1, keyNav |-> 1]

\* C28 (as claimed): a click on the image, the previous button, the next
\* button or a dot never reaches a click handler of an element that encloses
\* the block; a click on previous or next leaves lightboxOpen as it was, and a
\* click on the image leaves activeIndex as it was.
C28_ControlsStopPropagation ==
    [][lastEvent' \in {"imageClick", "previous", "next", "goTo"}
          => (/\ ~bubbled'
              /\ lastEvent' \in {"previous", "next"} => lightboxOpen' = lightboxOpen
              /\ lastEvent' = "imageClick" => activeIndex' = activeIndex)]_vars

\* C29: the editor's preview index stays valid: previewIndex = 0 when images
\* is empty and 0 <= previewIndex < images.length otherwise; and a removal of
\* the image that is both the previewed one and the last one leaves
\* previewIndex = max(0, newLength - 1).
C29_PreviewIndexValid ==
    /\ [](IF images = <<>> THEN previewIndex = 0
          ELSE previewIndex \in 0..(Len(images) - 1))
    /\ [][\A idx \in 0..(MaxEditorImages - 1) :
             (/\ lastEvent' = "removeImage"
              /\ idx = previewIndex
              /\ idx = Len(images) - 1
              /\ handleRemoveImage(idx))
                 => previewIndex' = Max(0, Len(images') - 1)]_vars

\* The last of the two images of the block being edited has been removed, and
\* the preview shows the image that is left.
C29_Witness ==
    /\ lastEvent = "removeImage"
    /\ initialData # None
    /\ Len(InitialImages(initialData)) = 2
    /\ images = <<InitialImages(initialData)[1]>>
    /\ previewIndex = 0
    /\ isOpen

====
